---- MODULE Spec2Model ----
(***************************************************************************)
(* Conversion dispatch engine of convert_my_file                          *)
(* (src/app/api/converter/route.ts): the POST handler, the structural      *)
(* transforms flattenObject / unflattenObject and extractPdfText.          *)
(*                                                                         *)
(* Strings are sequences of one-character strings, so that endsWith,       *)
(* split, trim, replace and toLowerCase are computed, not assumed.         *)
(* A JavaScript value is a record [t, s, o]:                               *)
(*   t = "num" | "str" | "null" | "undef" | "arr" | "obj"                  *)
(*   s = the scalar's text                                                 *)
(*   o = the own properties in insertion order, a sequence of [k, v];      *)
(*       an array holds its elements under their indices                   *)
(***************************************************************************)
EXTENDS Integers, Sequences, FiniteSets, TLC

\* ------------------------------------------------------------------ bounds
MaxNodes == 2
MaxFlatKeys == 2
MaxLines == 2

\* ----------------------------------------------------------------- strings
LowerLetters == <<"a", "b", "c", "d", "e", "f", "g", "h", "i", "j", "k", "l", "m", "n", "o", "p", "q", "r", "s", "t", "u", "v", "w", "x", "y", "z">>
UpperLetters == <<"A", "B", "C", "D", "E", "F", "G", "H", "I", "J", "K", "L", "M", "N", "O", "P", "Q", "R", "S", "T", "U", "V", "W", "X", "Y", "Z">>

Lower(c) ==
  IF \E i \in 1..Len(UpperLetters) : UpperLetters[i] = c
  THEN LowerLetters[CHOOSE i \in 1..Len(UpperLetters) : UpperLetters[i] = c]
  ELSE c

Upper(c) ==
  IF \E i \in 1..Len(LowerLetters) : LowerLetters[i] = c
  THEN UpperLetters[CHOOSE i \in 1..Len(LowerLetters) : LowerLetters[i] = c]
  ELSE c

toUpperCase(s) == [i \in 1..Len(s) |-> Upper(s[i])]

toLowerCase(s) == [i \in 1..Len(s) |-> Lower(s[i])]

endsWith(s, suf) ==
  /\ Len(suf) <= Len(s)
  /\ SubSeq(s, Len(s) - Len(suf) + 1, Len(s)) = suf

startsWith(s, pre) ==
  /\ Len(pre) <= Len(s)
  /\ SubSeq(s, 1, Len(pre)) = pre

\* the first index at which pat occurs in s, 0 when it does not
indexOf(s, pat) ==
  LET hits == {i \in 1..(Len(s) - Len(pat) + 1) : SubSeq(s, i, i + Len(pat) - 1) = pat}
  IN IF hits = {} THEN 0 ELSE CHOOSE i \in hits : \A j \in hits : i <= j

includes(s, pat) == indexOf(s, pat) # 0

\* String.prototype.replace with a string pattern: the first occurrence only
replace(s, pat, rep) ==
  LET i == indexOf(s, pat)
  IN IF i = 0 THEN s
     ELSE SubSeq(s, 1, i - 1) \o rep \o SubSeq(s, i + Len(pat), Len(s))

\* String.prototype.split on a one-character separator
RECURSIVE split(_, _)
split(s, sep) ==
  LET i == indexOf(s, <<sep>>)
  IN IF i = 0 THEN <<s>>
     ELSE <<SubSeq(s, 1, i - 1)>> \o split(SubSeq(s, i + 1, Len(s)), sep)

RECURSIVE join(_, _)
join(parts, sep) ==
  IF Len(parts) = 0 THEN <<>>
  ELSE IF Len(parts) = 1 THEN parts[1]
  ELSE parts[1] \o sep \o join(Tail(parts), sep)

WhiteSpace == {" ", "\t", "\r", "\n"}

RECURSIVE trimStart(_)
trimStart(s) ==
  IF Len(s) > 0 /\ s[1] \in WhiteSpace THEN trimStart(Tail(s)) ELSE s

RECURSIVE trimEnd(_)
trimEnd(s) ==
  IF Len(s) > 0 /\ s[Len(s)] \in WhiteSpace THEN trimEnd(SubSeq(s, 1, Len(s) - 1)) ELSE s

trim(s) == trimEnd(trimStart(s))

\* ------------------------------------------------------------------ values
Num(n) == [t |-> "num", s |-> n, o |-> <<>>]
Str(s) == [t |-> "str", s |-> s, o |-> <<>>]
Null == [t |-> "null", s |-> <<>>, o |-> <<>>]
Undefined == [t |-> "undef", s |-> <<>>, o |-> <<>>]
Digits == <<"0", "1", "2", "3", "4", "5", "6", "7", "8", "9">>
Prop(k, v) == [k |-> k, v |-> v]
Arr(elems) ==
  [t |-> "arr", s |-> <<>>, o |-> [i \in 1..Len(elems) |-> Prop(<<Digits[i]>>, elems[i])]]
Obj(props) == [t |-> "obj", s |-> <<>>, o |-> props]
\* a built-in function object (Object, Object.prototype.hasOwnProperty, ...)
Fn == [t |-> "fn", s |-> <<>>, o |-> <<>>]

\* ToBoolean
Truthy(v) ==
  CASE v.t = "num" -> v.s # <<"0">>
    [] v.t = "str" -> v.s # <<>>
    [] v.t = "null" -> FALSE
    [] v.t = "undef" -> FALSE
    [] OTHER -> TRUE

\* typeof v === "object" && v !== null && !Array.isArray(v)
IsPlainObject(v) == v.t = "obj"

\* an object that can carry properties (a plain object or an array)
IsObject(v) == v.t \in {"obj", "arr"}

OwnIndex(props, k) ==
  LET hits == {i \in 1..Len(props) : props[i].k = k}
  IN IF hits = {} THEN 0 ELSE CHOOSE i \in hits : TRUE

HasOwn(props, k) == OwnIndex(props, k) # 0

\* props[k] = v: an existing key keeps its place, a new key is appended
SetProp(props, k, v) ==
  LET i == OwnIndex(props, k)
  IN IF i = 0 THEN Append(props, Prop(k, v))
     ELSE [props EXCEPT ![i] = Prop(k, v)]

RECURSIVE AssignAll(_, _)
\* Object.assign(target, source)
AssignAll(target, source) ==
  IF Len(source) = 0 THEN target
  ELSE AssignAll(SetProp(target, source[1].k, source[1].v), Tail(source))

KeyHasOwnProperty == <<"h","a","s","O","w","n","P","r","o","p","e","r","t","y">>
KeyProto == <<"_","_","p","r","o","t","o","_","_">>

\* ------------------------------------------------- outcome of a computation
Ok(val, proto) == [threw |-> FALSE, msg |-> <<>>, val |-> val, proto |-> proto]
Threw(msg, proto) == [threw |-> TRUE, msg |-> msg, val |-> <<>>, proto |-> proto]

MsgNotAFunction == <<"obj.hasOwnProperty is not a function">>
MsgCreateOnPrimitive == <<"Cannot create property on a primitive value">>
MsgImmutablePrototype == <<"Immutable prototype object 'Object.prototype' cannot have their prototype set">>

\* The enumerable own properties a for-in loop visits first. A string exposes
\* its characters under their indices, other primitives expose nothing.
OwnEnumerable(v) ==
  CASE v.t \in {"obj", "arr"} -> v.o
    [] v.t = "str" -> [i \in 1..Len(v.s) |-> Prop(<<Digits[i]>>, Str(<<v.s[i]>>))]
    [] OTHER -> <<>>

\* obj.hasOwnProperty resolves to the built-in: no own property of obj and no
\* property written onto Object.prototype shadows it. proto is the sequence of
\* properties that requests have added to Object.prototype.
HasOwnPropertyCallable(obj, proto) ==
  /\ ~(IsObject(obj) /\ HasOwn(obj.o, KeyHasOwnProperty))
  /\ ~HasOwn(proto, KeyHasOwnProperty)

\* whether the body of `for (const key in obj)` runs at all: own enumerable
\* keys, or enumerable keys inherited from a polluted Object.prototype
ForInEnters(obj, proto) ==
  \/ Len(OwnEnumerable(obj)) > 0
  \/ (obj.t \notin {"null", "undef"} /\ Len(proto) > 0)

\* `${prefix}.${key}` when prefix is truthy, key otherwise
NewKey(prefix, key) == IF prefix # <<>> THEN prefix \o <<".">> \o key ELSE key

\* the recursion test of flattenObject (route.ts line 26)
FlattenRecurses(v) == IsPlainObject(v)

RECURSIVE flattenObject(_, _, _)
RECURSIVE flattenLoop(_, _, _, _, _)
RECURSIVE flattenNested(_, _, _, _, _, _)
flattenLoop(own, i, prefix, proto, flattened) ==
  IF i > Len(own) THEN Ok(flattened, proto)
  ELSE IF FlattenRecurses(own[i].v)
  THEN flattenNested(own, i, prefix, proto, flattened,
                     flattenObject(own[i].v, NewKey(prefix, own[i].k), proto))
  ELSE flattenLoop(own, i + 1, prefix, proto,
                   SetProp(flattened, NewKey(prefix, own[i].k), own[i].v))

\* line 27: Object.assign(flattened, sub), sub being the recursive call's outcome
flattenNested(own, i, prefix, proto, flattened, sub) ==
  IF sub.threw THEN sub
  ELSE flattenLoop(own, i + 1, prefix, proto, AssignAll(flattened, sub.val))

flattenObject(obj, prefix, proto) ==
  IF ForInEnters(obj, proto) /\ ~HasOwnPropertyCallable(obj, proto)
  THEN Threw(MsgNotAFunction, proto)
  ELSE flattenLoop(OwnEnumerable(obj), 1, prefix, proto, <<>>)

\* ---------------------------------------------------------- unflattenObject
\* `current` is a reference: into the result being built, into Object.prototype
\* (reached through the inherited accessor __proto__, or through a property a
\* request has written there), or a primitive value.
Loc(root, path) == [root |-> root, path |-> path]

RECURSIVE GetPath(_, _)
GetPath(props, path) ==
  IF Len(path) = 0 THEN props
  ELSE GetPath(props[OwnIndex(props, path[1])].v.o, Tail(path))

RECURSIVE SetPath(_, _, _, _)
SetPath(props, path, k, v) ==
  IF Len(path) = 0 THEN SetProp(props, k, v)
  ELSE LET i == OwnIndex(props, path[1])
       IN [props EXCEPT ![i].v.o = SetPath(@, Tail(path), k, v)]

Root(st, root) == IF root = "proto" THEN st.proto ELSE st.result

IsObjectPrototype(loc) == loc.root = "proto" /\ loc.path = <<>>

\* current[k]: the value, and the reference that `current = current[k]` yields
Lookup(st, loc, k) ==
  IF loc.root = "prim" THEN [val |-> Undefined, loc |-> loc]
  ELSE
    LET props == GetPath(Root(st, loc.root), loc.path)
        i == OwnIndex(props, k)
        child == Loc(loc.root, Append(loc.path, k))
        ref(v, l) == [val |-> v, loc |-> IF IsObject(v) THEN l ELSE Loc("prim", <<>>)]
    IN IF i # 0 THEN ref(props[i].v, child)
       ELSE IF k = KeyProto
         THEN IF IsObjectPrototype(loc) THEN ref(Null, child)
              ELSE ref(Obj(st.proto), Loc("proto", <<>>))
       ELSE IF ~IsObjectPrototype(loc) /\ HasOwn(st.proto, k)
         THEN ref(st.proto[OwnIndex(st.proto, k)].v, Loc("proto", <<k>>))
       ELSE [val |-> Undefined, loc |-> child]

\* current[k] = v in strict-mode code (route.ts is an ES module)
AssignProp(st, loc, k, v) ==
  IF loc.root = "prim" THEN [threw |-> TRUE, msg |-> MsgCreateOnPrimitive, st |-> st]
  ELSE IF k = KeyProto /\ ~HasOwn(GetPath(Root(st, loc.root), loc.path), k)
    THEN \* the __proto__ setter: a non-object value is ignored
         IF IsObjectPrototype(loc) /\ IsObject(v)
         THEN [threw |-> TRUE, msg |-> MsgImmutablePrototype, st |-> st]
         ELSE [threw |-> FALSE, msg |-> <<>>, st |-> st]
  ELSE IF loc.root = "proto"
    THEN [threw |-> FALSE, msg |-> <<>>,
          st |-> [st EXCEPT !.proto = SetPath(@, loc.path, k, v)]]
  ELSE [threw |-> FALSE, msg |-> <<>>,
        st |-> [st EXCEPT !.result = SetPath(@, loc.path, k, v)]]

\* the test `if (!current[k])` that decides whether an intermediate is created
NeedsCreate(v) == ~Truthy(v)

RECURSIVE unflattenWalk(_, _, _, _, _)
RECURSIVE unflattenStep(_, _, _, _, _, _)
RECURSIVE unflattenCreated(_, _, _, _, _)
\* lines 46-54 for one key: the walk over keys[1..n-1], then the leaf write
unflattenWalk(st, keys, i, loc, value) ==
  IF i = Len(keys) THEN AssignProp(st, loc, keys[i], value)
  ELSE unflattenStep(st, keys, i, loc, value, Lookup(st, loc, keys[i]))

\* lines 47-51, found being current[k]
unflattenStep(st, keys, i, loc, value, found) ==
  IF NeedsCreate(found.val)
  THEN unflattenCreated(keys, i, loc, value, AssignProp(st, loc, keys[i], Obj(<<>>)))
  ELSE unflattenWalk(st, keys, i + 1, found.loc, value)

\* line 51 after line 49 has run: current is the object just created
unflattenCreated(keys, i, loc, value, made) ==
  IF made.threw THEN made
  ELSE unflattenWalk(made.st, keys, i + 1, Loc(loc.root, Append(loc.path, keys[i])), value)

RECURSIVE unflattenLoop(_, _, _)
RECURSIVE unflattenNext(_, _, _)
unflattenLoop(own, i, st) ==
  IF i > Len(own) THEN Ok(st.result, st.proto)
  ELSE unflattenNext(own, i,
         unflattenWalk(st, split(own[i].k, "."), 1, Loc("result", <<>>), own[i].v))

\* r is the state after the key own[i], or the exception it raised
unflattenNext(own, i, r) ==
  IF r.threw THEN Threw(r.msg, r.st.proto) ELSE unflattenLoop(own, i + 1, r.st)

unflattenObject(obj, proto) ==
  IF ForInEnters(obj, proto) /\ ~HasOwnPropertyCallable(obj, proto)
  THEN Threw(MsgNotAFunction, proto)
  ELSE unflattenLoop(OwnEnumerable(obj), 1, [result |-> <<>>, proto |-> proto])

\* ------------------------------------------------------------ external codecs
\* The bytes of an upload are described by what the decoders make of them:
\* content.kind names the format the bytes are well-formed in, the other
\* fields what the matching decoder returns. A decoder given bytes of another
\* format fails the way the library does (throws, or finds no rows).
Content(kind, text, json, fields, rows, pages, size) ==
  [kind |-> kind, text |-> text, json |-> json, fields |-> fields, rows |-> rows,
   pages |-> pages, size |-> size]

\* JSON.parse(buffer.toString("utf-8"))
JSONparse(content, proto) ==
  IF content.kind = "json" THEN Ok(content.json, proto)
  ELSE Threw(<<"Unexpected token in JSON at position 0">>, proto)

\* one row object of Papa.parse with header: true: row[field] = cell, in order
RECURSIVE PapaRow(_, _, _)
PapaRow(fields, cells, row) ==
  IF Len(fields) = 0 \/ Len(cells) = 0 THEN row
  ELSE PapaRow(Tail(fields), Tail(cells), SetProp(row, fields[1], cells[1]))

\* Papa.parse(csvText, {header, skipEmptyLines, dynamicTyping, transformHeader: trim})
\* never throws; bytes that are no delimited text yield no fields and no rows
PapaParse(content) ==
  IF content.kind # "csv" THEN [fields |-> <<>>, data |-> <<>>]
  ELSE LET fields == [i \in 1..Len(content.fields) |-> trim(content.fields[i])]
       IN [fields |-> fields,
           data |-> [i \in 1..Len(content.rows) |->
                       Obj(PapaRow(fields, content.rows[i], <<>>))]]

\* Papa.unparse(array of objects): the columns are the keys of the first object
PapaUnparse(objs) ==
  IF Len(objs) = 0 THEN Obj(<<>>)
  ELSE LET cols == [i \in 1..Len(objs[1]) |-> objs[1][i].k]
           cell(o, c) == IF HasOwn(o, c) THEN o[OwnIndex(o, c)].v ELSE Undefined
       IN Obj(<<Prop(<<"fields">>, Arr([i \in 1..Len(cols) |-> Str(cols[i])])),
                Prop(<<"rows">>,
                     Arr([r \in 1..Len(objs) |->
                            Arr([i \in 1..Len(cols) |-> cell(objs[r], cols[i])])]))>>)

\* require("pdf-parse")(buffer)
pdfParse(content) ==
  IF content.kind = "pdf"
  THEN [threw |-> FALSE, msg |-> <<>>, text |-> content.text, numpages |-> content.pages]
  ELSE [threw |-> TRUE, msg |-> <<"Invalid PDF structure">>, text |-> <<>>, numpages |-> 0]

\* mammoth.extractRawText({ buffer })
mammothExtractRawText(content) ==
  IF content.kind = "docx"
  THEN [threw |-> FALSE, msg |-> <<>>, value |-> content.text]
  ELSE [threw |-> TRUE, msg |-> <<"Could not find file in options">>, value |-> <<>>]

\* sharp(buffer).png(...).toBuffer() / .jpeg(...).toBuffer()
sharpEncode(content, format) ==
  IF content.kind = "image"
  THEN [threw |-> FALSE, msg |-> <<>>, bytes |-> <<format>> \o content.text]
  ELSE [threw |-> TRUE, msg |-> <<"Input buffer contains unsupported image format">>,
        bytes |-> <<>>]

\* ------------------------------------------------------------ extractPdfText
RECURSIVE DecStr(_)
DecStr(n) == IF n < 10 THEN <<Digits[n + 1]>> ELSE DecStr(n \div 10) \o <<Digits[(n % 10) + 1]>>

\* (buffer.length / 1024).toFixed(1)
KBtoFixed1(bytes) ==
  LET tenths == (bytes * 10 + 512) \div 1024
  IN DecStr(tenths \div 10) \o <<".">> \o <<Digits[(tenths % 10) + 1]>>

PdfTextHeader == <<"PDF Text Content:", "\n", "\n">>
PdfIssueHeader == <<"PDF Processing Issue", "\n", "\n", "PDF Information:", "\n">>
PdfIssueCauses ==
  <<"Text Extraction Failed: No extractable text found in the PDF.", "\n",
    "Possible reasons: scanned document, text embedded as graphics, complex formatting, password protection", "\n",
    "This converter works perfectly with: DOCX, images, CSV">>
PdfErrorHeader == <<"Unable to process PDF", "\n", "\n", "Error encountered:", "\n">>
PdfErrorAdvice ==
  <<"\n", "This might indicate: corrupted upload, unsupported PDF version, server limitations, memory constraints", "\n",
    "Solutions to try: different PDF, no password protection, smaller file, alternative tools", "\n",
    "Working alternatives: DOCX, TXT, CSV, and image conversions work perfectly!">>

\* a variant that forgets to trim
HasUsableTextUntrimmed(text) == text # <<>>
\* the test of line 70: data.text && data.text.trim().length > 0
HasUsableText(text) == text # <<>> /\ Len(trim(text)) > 0

\* the branch of lines 70-72
PdfTextResult(text) == PdfTextHeader \o trim(text)

\* extractPdfText returns a string on every path: the catch of lines 95-116
\* turns a failure of pdfParse into a report, which POST sends as a Success;
\* caught is the message of the error caught there (<<>> when none was)
extractPdfText(content) ==
  LET data == pdfParse(content)
  IN IF data.threw
     THEN [caught |-> data.msg, text |-> PdfErrorHeader \o data.msg \o PdfErrorAdvice]
     ELSE IF HasUsableText(data.text)
     THEN [caught |-> <<>>, text |-> PdfTextResult(data.text)]
     ELSE [caught |-> <<>>,
           text |-> PdfIssueHeader
                    \o <<"Total pages: ">> \o DecStr(data.numpages) \o <<"\n">>
                    \o <<"File size: ">> \o KBtoFixed1(content.size) \o <<"KB", "\n">>
                    \o <<"Status: Valid PDF format", "\n">>
                    \o PdfIssueCauses]

\* ----------------------------------------------------------------- mimeTypes
sMd == <<"m", "d">>
sTxt == <<"t", "x", "t">>
sJson == <<"j", "s", "o", "n">>
sCsv == <<"c", "s", "v">>
sPdf == <<"p", "d", "f">>
sDocx == <<"d", "o", "c", "x">>
sPng == <<"p", "n", "g">>
sJpg == <<"j", "p", "g">>
sJpeg == <<"j", "p", "e", "g">>
sConstructor == <<"c", "o", "n", "s", "t", "r", "u", "c", "t", "o", "r">>

\* the own keys of the mimeTypes table (lines 6-16)
MimeKeys == {sMd, sTxt, sJson, sCsv, sPdf, sDocx, sPng, sJpg, sJpeg}

MimeOf(k) ==
  CASE k = sMd -> <<"text/markdown; charset=utf-8">>
    [] k = sTxt -> <<"text/plain; charset=utf-8">>
    [] k = sJson -> <<"application/json; charset=utf-8">>
    [] k = sCsv -> <<"text/csv; charset=utf-8">>
    [] k = sPdf -> <<"application/pdf">>
    [] k = sDocx -> <<"application/vnd.openxmlformats-officedocument.wordprocessingml.document">>
    [] k = sPng -> <<"image/png">>
    [] OTHER -> <<"image/jpeg">>

\* members of the built-in Object.prototype whose names survive toLowerCase()
BuiltinMembers == {sConstructor}

\* mimeTypes[outputType]: mimeTypes is an ordinary object literal, so a key
\* it does not own is looked up along its prototype chain
mimeTypesLookup(k, proto) ==
  IF k \in MimeKeys THEN Str(MimeOf(k))
  ELSE IF k = KeyProto THEN Obj(proto)
  ELSE IF HasOwn(proto, k) THEN proto[OwnIndex(proto, k)].v
  ELSE IF k \in BuiltinMembers THEN Fn
  ELSE Undefined

\* ------------------------------------------------------------------ requests
\* outputType is Str(..) or Undefined (the form field is absent)
Request(hasFile, name, type, outputType, content) ==
  [hasFile |-> hasFile, name |-> name, type |-> type, outputType |-> outputType,
   content |-> content]

\* (formData.get("outputType") as string)?.toLowerCase()
OutputTypeOf(req) ==
  IF req.outputType.t = "str" THEN Str(toLowerCase(req.outputType.s)) ELSE Undefined

\* line 129: !outputType || !mimeTypes[outputType]
RejectsOutputType(out, proto) ==
  \/ ~Truthy(out)
  \/ ~Truthy(mimeTypesLookup(out.s, proto))

\* ------------------------------------------------------- pipeline predicates
ImageSuffixes == {<<".", "j", "p", "g">>, <<".", "j", "p", "e", "g">>, <<".", "p", "n", "g">>, <<".", "g", "i", "f">>, <<".", "b", "m", "p">>, <<".", "w", "e", "b", "p">>, <<".", "t", "i", "f", "f">>, <<".", "s", "v", "g">>}

\* file.name.match(/\.(jpg|jpeg|png|gif|bmp|webp|tiff|svg)$/i)
MatchesImageSuffix(name) == \E suf \in ImageSuffixes : endsWith(toLowerCase(name), suf)

\* file.name.endsWith(suffix), as written at lines 140, 144, 147, 172, 202
NameEndsWith(name, suffix) == endsWith(name, suffix)

IsDocxToMd(out, req) == out = sMd /\ NameEndsWith(req.name, <<".", "d", "o", "c", "x">>)
IsPdfToTxt(out, req) == out = sTxt /\ NameEndsWith(req.name, <<".", "p", "d", "f">>)
IsCsvToJson(out, req) == out = sJson /\ NameEndsWith(req.name, <<".", "c", "s", "v">>)
IsJsonToCsv(out, req) == out = sCsv /\ NameEndsWith(req.name, <<".", "j", "s", "o", "n">>)
IsImage(out, req) ==
  /\ out \in {sPng, sJpg, sJpeg}
  /\ (startsWith(req.type, <<"i", "m", "a", "g", "e", "/">>) \/ MatchesImageSuffix(req.name))
\* a variant that forgets the suffix test
IsTxtToMdAnyName(out, req) == out = sMd
IsTxtToMd(out, req) == out = sMd /\ NameEndsWith(req.name, <<".", "t", "x", "t">>)

\* the if / else-if chain of lines 140-231: the first test that holds
Branch(out, req) ==
  IF IsDocxToMd(out, req) THEN "docx-md"
  ELSE IF IsPdfToTxt(out, req) THEN "pdf-txt"
  ELSE IF IsCsvToJson(out, req) THEN "csv-json"
  ELSE IF IsJsonToCsv(out, req) THEN "json-csv"
  ELSE IF IsImage(out, req) THEN "image"
  ELSE IF IsTxtToMd(out, req) THEN "txt-md"
  ELSE "else"

\* ------------------------------------------------------ plain text to markup
LabelMaxLen == 60

\* a variant with an off-by-one length test
IsLabelAtMost(trimmed) ==
  /\ Len(trimmed) <= LabelMaxLen
  /\ ~(Len(trimmed) > 0 /\ trimmed[Len(trimmed)] \in {".", "!", "?"})
  /\ ~includes(trimmed, <<" ">>)

\* line 214: trimmed.length < 60 && !/[.!?]$/.test(trimmed) && !trimmed.includes(" ")
IsLabel(trimmed) ==
  /\ Len(trimmed) < LabelMaxLen
  /\ ~(Len(trimmed) > 0 /\ trimmed[Len(trimmed)] \in {".", "!", "?"})
  /\ ~includes(trimmed, <<" ">>)

\* the line pushed for one source line (lines 209-220)
MarkdownLine(line) ==
  LET trimmed == trim(line)
  IN IF trimmed = <<>> THEN <<>>
     ELSE IF IsLabel(trimmed) THEN <<"#", "#", " ">> \o trimmed
     ELSE trimmed

\* lines 204-222
TxtToMarkdown(name, text) ==
  LET lines == split(text, "\n")
      head == << <<"#", " ">> \o replace(name, <<".", "t", "x", "t">>, <<>>), <<>>,
                 <<"Converted from text file">>, <<>> >>
  IN join(head \o [i \in 1..Len(lines) |-> MarkdownLine(lines[i])], <<"\n">>)

\* ---------------------------------------------------------------------- POST
Response(status, error, text, value, mime, filename) ==
  [status |-> status, error |-> error, text |-> text, value |-> value,
   mime |-> mime, filename |-> filename]

\* NextResponse.json({ error }, { status })
ErrorResponse(status, error) == Response(status, error, <<>>, Undefined, <<>>, <<>>)

MsgNoFile == <<"No file uploaded">>
MsgUnsupportedOutput == <<"Unsupported output type">>
MsgJsonShape == <<"JSON must be an object or array of objects">>
ServerErrorHints ==
  <<"\n", "This might be due to: file upload corruption, server configuration issue, unsupported file format, memory limitations",
    "\n", "Please try: a smaller file, a different file format, refreshing and trying again">>

\* lines 224-230
MsgNoConversion(name, out) ==
  LET parts == split(name, ".")
      last == toLowerCase(parts[Len(parts)])
      fileExt == IF last = <<>> THEN <<"u", "n", "k", "n", "o", "w", "n">> ELSE last
  IN <<"Conversion from ">> \o toUpperCase(fileExt) \o <<" to ">> \o toUpperCase(out)
     \o <<" is not supported. Please check the supported conversions list.">>

\* the catch of lines 248-267
ServerError(msg) == ErrorResponse(500, <<"Server error: ">> \o msg \o ServerErrorHints)

\* lines 233-247; the Date.now() part of the file name is left out of the record
Success(req, out, text, value, proto) ==
  Response(200, <<>>, text, value, mimeTypesLookup(out, proto).s,
           split(req.name, ".")[1] \o <<"-", "c", "o", "n", "v", "e", "r", "t", "e", "d", ".">> \o out)

\* raised is the message of the exception raised while the pipeline ran
\* (<<>> when none was), wherever it was caught
Result(resp, proto, bytesRead, branch, calls, raised) ==
  [resp |-> resp, proto |-> proto, bytesRead |-> bytesRead, branch |-> branch,
   calls |-> calls, raised |-> raised]

RECURSIVE UnflattenRows(_, _, _, _)
RECURSIVE UnflattenedRow(_, _, _, _)
\* (parsed.data as any[]).map((row) => unflattenObject(row))
UnflattenRows(rows, i, proto, acc) ==
  IF i > Len(rows) THEN Ok(acc, proto)
  ELSE UnflattenedRow(rows, i, acc, unflattenObject(rows[i], proto))

UnflattenedRow(rows, i, acc, r) ==
  IF r.threw THEN r ELSE UnflattenRows(rows, i + 1, r.proto, Append(acc, Obj(r.val)))

RECURSIVE FlattenItems(_, _, _, _)
RECURSIVE FlattenedItem(_, _, _, _)
\* jsonData.map((item) => flattenObject(item))
FlattenItems(items, i, proto, acc) ==
  IF i > Len(items) THEN Ok(acc, proto)
  ELSE FlattenedItem(items, i, acc, flattenObject(items[i], <<>>, proto))

FlattenedItem(items, i, acc, r) ==
  IF r.threw THEN r ELSE FlattenItems(items, i + 1, r.proto, Append(acc, r.val))

\* lines 141-143
DocxToMd(req, out, proto) ==
  LET r == mammothExtractRawText(req.content)
  IN IF r.threw
     THEN Result(ServerError(r.msg), proto, TRUE, "docx-md", <<"mammoth">>, r.msg)
     ELSE Result(Success(req, out,
                         <<"#", " ">> \o replace(req.name, <<".", "d", "o", "c", "x">>, <<>>)
                           \o <<"\n", "\n", "Converted from Word document", "\n", "\n">>
                           \o r.value,
                         Undefined, proto),
                 proto, TRUE, "docx-md", <<"mammoth">>, <<>>)

\* lines 145-146
PdfSent(req, out, proto, extracted) ==
  Result(Success(req, out, extracted.text, Undefined, proto),
         proto, TRUE, "pdf-txt", <<"pdfParse">>, extracted.caught)

PdfToTxt(req, out, proto) == PdfSent(req, out, proto, extractPdfText(req.content))

\* lines 148-171; the value handed to JSON.stringify is kept as the payload
CsvEnvelope(req, out, parsed, un) ==
  LET calls == <<"Papa.parse">> \o [i \in 1..Len(parsed.data) |-> "unflattenObject"]
  IN IF un.threw
     THEN Result(ServerError(un.msg), un.proto, TRUE, "csv-json", calls, un.msg)
     ELSE Result(Success(req, out, <<>>,
                   Obj(<<Prop(<<"m", "e", "t", "a">>,
                              Obj(<<Prop(<<"f", "i", "l", "e", "n", "a", "m", "e">>, Str(req.name)),
                                    Prop(<<"r", "o", "w", "s">>, Num(DecStr(Len(un.val)))),
                                    Prop(<<"f", "i", "e", "l", "d", "s">>,
                                         Arr([i \in 1..Len(parsed.fields) |->
                                                Str(parsed.fields[i])]))>>)),
                         Prop(<<"d", "a", "t", "a">>, Arr(un.val))>>),
                   un.proto),
                 un.proto, TRUE, "csv-json", calls, <<>>)

CsvRows(req, out, parsed, proto) ==
  CsvEnvelope(req, out, parsed, UnflattenRows(parsed.data, 1, proto, <<>>))

CsvToJson(req, out, proto) == CsvRows(req, out, PapaParse(req.content), proto)

\* lines 173-190
JsonItems(jsonData) ==
  IF jsonData.t = "arr" THEN [i \in 1..Len(jsonData.o) |-> jsonData.o[i].v]
  ELSE <<jsonData>>

\* lines 179-180 and 183-184, fl being the outcome of the flattenObject calls
JsonUnparse(req, out, proto, n, fl) ==
  LET calls == <<"JSON.parse">> \o [i \in 1..n |-> "flattenObject"]
  IN IF fl.threw
     THEN Result(ServerError(fl.msg), proto, TRUE, "json-csv", calls, fl.msg)
     ELSE Result(Success(req, out, <<>>, PapaUnparse(fl.val), proto),
                 proto, TRUE, "json-csv", Append(calls, "Papa.unparse"), <<>>)

\* lines 177-190, parsed being the outcome of JSON.parse
JsonParsed(req, out, proto, parsed) ==
  IF parsed.threw
  THEN Result(ServerError(parsed.msg), proto, TRUE, "json-csv", <<"JSON.parse">>, parsed.msg)
  ELSE IF parsed.val.t \notin {"arr", "obj"}
  THEN Result(ErrorResponse(400, MsgJsonShape), proto, TRUE, "json-csv", <<"JSON.parse">>, <<>>)
  ELSE JsonUnparse(req, out, proto, Len(JsonItems(parsed.val)),
                   FlattenItems(JsonItems(parsed.val), 1, proto, <<>>))

JsonToCsv(req, out, proto) == JsonParsed(req, out, proto, JSONparse(req.content, proto))

\* lines 196-201
ImageToImage(req, out, proto) ==
  LET format == IF out = sPng THEN "png" ELSE "jpeg"
      r == sharpEncode(req.content, format)
  IN IF r.threw
     THEN Result(ServerError(r.msg), proto, TRUE, "image", <<"sharp">>, r.msg)
     ELSE Result(Success(req, out, r.bytes, Undefined, proto), proto, TRUE, "image", <<"sharp">>,
                 <<>>)

\* lines 203-222
TxtToMd(req, out, proto) ==
  Result(Success(req, out, TxtToMarkdown(req.name, req.content.text), Undefined, proto),
         proto, TRUE, "txt-md", <<>>, <<>>)

\* lines 223-231
NoConversion(req, out, proto) ==
  Result(ErrorResponse(400, MsgNoConversion(req.name, out)), proto, TRUE, "else", <<>>, <<>>)

\* the handler, lines 119-268: its response, the Object.prototype it leaves
\* behind, whether file.arrayBuffer() was read, the branch it took, the
\* codec and transform calls it made and the exception raised on the way
POST(req, proto) ==
  LET outputType == OutputTypeOf(req)
      out == outputType.s
      branch == Branch(out, req)
  IN IF ~req.hasFile
     THEN Result(ErrorResponse(400, MsgNoFile), proto, FALSE, "none", <<>>, <<>>)
     ELSE IF RejectsOutputType(outputType, proto)
     THEN Result(ErrorResponse(400, MsgUnsupportedOutput), proto, FALSE, "none", <<>>, <<>>)
     ELSE CASE branch = "docx-md" -> DocxToMd(req, out, proto)
            [] branch = "pdf-txt" -> PdfToTxt(req, out, proto)
            [] branch = "csv-json" -> CsvToJson(req, out, proto)
            [] branch = "json-csv" -> JsonToCsv(req, out, proto)
            [] branch = "image" -> ImageToImage(req, out, proto)
            [] branch = "txt-md" -> TxtToMd(req, out, proto)
            [] OTHER -> NoConversion(req, out, proto)

\* -------------------------------------------------------------------- inputs
Leaves == {Num(<<"0">>), Num(<<"1">>), Str(<<>>), Null, Arr(<<Num(<<"1">>)>>)}
RecordKeys == {<<"a">>, <<"b">>, <<>>}

RECURSIVE Weight(_)
RECURSIVE WeightOfProps(_)
\* the number of nodes of a value: itself and everything below it
Weight(v) == IF v.t = "obj" THEN 1 + WeightOfProps(v.o) ELSE 1
WeightOfProps(props) ==
  IF Len(props) = 0 THEN 0 ELSE Weight(props[1].v) + WeightOfProps(Tail(props))

RECURSIVE RecordsUpTo(_)
\* the property lists with distinct keys and at most n nodes
RecordsUpTo(n) ==
  IF n <= 0 THEN {<<>>}
  ELSE LET smaller == RecordsUpTo(n - 1)
           vals == Leaves \cup {Obj(r) : r \in smaller}
       IN {<<>>} \cup
          UNION {UNION {{<<Prop(k, v)>> \o rest :
                          rest \in {r \in smaller :
                                      /\ WeightOfProps(r) + Weight(v) <= n
                                      /\ ~HasOwn(r, k)}} :
                        v \in {w \in vals : Weight(w) <= n}} :
                 k \in RecordKeys}

RecordInputs == RecordsUpTo(MaxNodes)

FlatScalars == {Num(<<"0">>), Num(<<"1">>), Str(<<>>), Null}
FlatKeys == {<<"a">>, <<"a", ".", "b">>, <<"b">>, <<>>, KeyProto \o <<".", "a">>}

RECURSIVE FlatsUpTo(_)
\* the flat records with distinct keys and at most n of them
FlatsUpTo(n) ==
  IF n <= 0 THEN {<<>>}
  ELSE LET smaller == FlatsUpTo(n - 1)
       IN {<<>>} \cup
          UNION {{<<Prop(k, v)>> \o rest :
                    v \in FlatScalars, rest \in {r \in smaller : ~HasOwn(r, k)}} :
                 k \in FlatKeys}

FlatInputs == FlatsUpTo(MaxFlatKeys)

NoContent == Content("junk", <<"?">>, Undefined, <<>>, <<>>, 0, 0)
JsonContent(v) == Content("json", <<"{", "}">>, v, <<>>, <<>>, 0, 0)
CsvContent(fields, rows) == Content("csv", <<",">>, Undefined, fields, rows, 0, 0)
TextContent(text) == Content("text", text, Undefined, <<>>, <<>>, 0, 0)
PdfContent(text, pages, size) == Content("pdf", text, Undefined, <<>>, <<>>, pages, size)
DocxContent(text) == Content("docx", text, Undefined, <<>>, <<>>, 0, 0)
ImageContent == Content("image", <<"pixels">>, Undefined, <<>>, <<>>, 0, 0)

\* a one-row delimited file whose header and cells are those of a flat record
CsvOfFlat(f) ==
  CsvContent([i \in 1..Len(f) |-> f[i].k], << [i \in 1..Len(f) |-> f[i].v] >>)

SampleContents == {NoContent, PdfContent(<<"h", "i">>, 1, 2048), ImageContent}

Stems == {<<".", "d", "o", "c", "x">>, <<".", "D", "O", "C", "X">>, <<".", "D", "o", "c", "x">>, <<".", "p", "d", "f">>, <<".", "P", "D", "F">>, <<".", "P", "d", "f">>, <<".", "c", "s", "v">>, <<".", "C", "S", "V">>, <<".", "C", "s", "v">>,
          <<".", "j", "s", "o", "n">>, <<".", "J", "S", "O", "N">>, <<".", "J", "s", "o", "n">>, <<".", "t", "x", "t">>, <<".", "T", "X", "T">>, <<".", "T", "x", "t">>, <<".", "b", "m", "p">>, <<".", "P", "N", "G">>, <<>>}
Names == {<<"r">> \o suf : suf \in Stems}
Types == {<<"i", "m", "a", "g", "e", "/", "b", "m", "p">>, <<"t", "e", "x", "t", "/", "p", "l", "a", "i", "n">>}
Outputs ==
  {Str(o) : o \in MimeKeys \cup {<<"P", "N", "G">>, <<"x", "m", "l">>, sConstructor, KeyProto, <<>>}}
    \cup {Undefined}

DispatchRequests ==
  {Request(TRUE, n, t, o, c) : n \in Names, t \in Types, o \in Outputs, c \in SampleContents}
    \cup {Request(FALSE, <<>>, <<>>, o, NoContent) : o \in Outputs}

LongWord(n) == [i \in 1..n |-> "x"]
Lines ==
  {<<>>, <<"a">>, <<" ">>, <<"a", ".">>, <<"a", "!">>, <<"a", "?">>, <<" ", "a">>, <<"a", " ", "b">>, <<"-", " ", "a">>, <<"*", " ", "a">>, <<"a", "\r">>,
   LongWord(LabelMaxLen - 1), LongWord(LabelMaxLen)}

RECURSIVE LineSeqsUpTo(_)
LineSeqsUpTo(n) ==
  IF n <= 1 THEN {<<l>> : l \in Lines}
  ELSE LET smaller == LineSeqsUpTo(n - 1)
       IN smaller \cup {<<l>> \o rest : l \in Lines, rest \in smaller}

Texts == {join(ls, <<"\n">>) : ls \in LineSeqsUpTo(MaxLines)}

TextRequests ==
  {Request(TRUE, n, <<"t", "e", "x", "t", "/", "p", "l", "a", "i", "n">>, Str(sMd), TextContent(t)) :
     n \in {<<"n", "o", "t", "e", "s", ".", "t", "x", "t">>}, t \in Texts}
    \cup {Request(TRUE, <<"a", ".", "t", "x", "t", ".", "t", "x", "t">>, <<"t", "e", "x", "t", "/", "p", "l", "a", "i", "n">>, Str(sMd),
                   TextContent(<<"T", "I", "T", "L", "E", "\n", "\n", "S", "o", "m", "e", " ", "s", "e", "n", "t", "e", "n", "c", "e", ".">>))}

DocxRequests ==
  {Request(TRUE, <<"w", ".", "d", "o", "c", "x">>, <<>>, Str(sMd), DocxContent(t)) : t \in {<<>>, <<"h", "i">>}}

PdfTexts == {<<>>, <<" ">>, <<"\n">>, <<"h", "i">>, <<" ", "h", "i", " ">>, <<" ", "\n", "\t">>}
PdfRequests ==
  {Request(TRUE, <<"s", "c", "a", "n", ".", "p", "d", "f">>, <<"a", "p", "p", "l", "i", "c", "a", "t", "i", "o", "n", "/", "p", "d", "f">>, Str(sTxt), PdfContent(t, n, z)) :
     t \in PdfTexts, n \in {0, 3}, z \in {0, 100, 2048}}

CsvRequests ==
  {Request(TRUE, <<"r", "e", "p", "o", "r", "t", ".", "c", "s", "v">>, <<"t", "e", "x", "t", "/", "c", "s", "v">>, Str(sJson), CsvOfFlat(f)) : f \in FlatInputs}
    \cup {Request(TRUE, <<"r", "e", "p", "o", "r", "t", ".", "c", "s", "v">>, <<"t", "e", "x", "t", "/", "c", "s", "v">>, Str(sJson), c) :
            c \in {CsvContent(<<<<" ", "a", " ">>, KeyProto \o <<".", "a">>>>,
                              << <<Num(<<"1">>), Num(<<"1">>)>>, <<Null, Num(<<"0">>)>> >>),
                   CsvContent(<<KeyProto \o <<".", "a">>, <<"a", ".", "b">>>>,
                              << <<Num(<<"1">>), Num(<<"1">>)>> >>),
                   CsvContent(<<<<"n", "a", "m", "e">>, <<"m", "e", "t", "a", ".", "a", "g", "e">>>>,
                              << <<Str(<<"A">>), Num(<<"3", "0">>)>> >>)}}

JsonValues ==
  {Obj(r) : r \in RecordsUpTo(2)}
    \cup {Arr(<<Obj(r)>>) : r \in RecordsUpTo(1)}
    \cup {Arr(<<>>), Arr(<<Num(<<"1">>), Str(<<"a", "b">>), Null>>), Num(<<"1">>), Str(<<"a", "b">>), Null,
          Obj(<<Prop(KeyHasOwnProperty, Num(<<"1">>))>>),
          Arr(<<Obj(<<Prop(<<"x">>, Obj(<<Prop(<<"y">>, Num(<<"1">>))>>))>>)>>)}
JsonRequests ==
  {Request(TRUE, <<"d", "a", "t", "a", ".", "j", "s", "o", "n">>, <<"a", "p", "p", "l", "i", "c", "a", "t", "i", "o", "n", "/", "j", "s", "o", "n">>, Str(sCsv), JsonContent(v)) : v \in JsonValues}

Requests ==
  DispatchRequests \cup TextRequests \cup DocxRequests \cup PdfRequests
    \cup CsvRequests \cup JsonRequests

\* --------------------------------------------------------------------- state
VARIABLES
  objectPrototype,  \* the properties requests have written onto Object.prototype
  op,               \* "idle", or the operation that has just run
  request,          \* POST: the request
  result,           \* POST: Result(..)
  record,           \* flatten then unflatten, or unflatten alone: the input
  flat,             \* the outcome of flattenObject
  restored          \* the outcome of unflattenObject

vars == <<objectPrototype, op, request, result, record, flat, restored>>

NoRequest == Request(FALSE, <<>>, <<>>, Undefined, NoContent)
NoResult == Result(ErrorResponse(0, <<>>), <<>>, FALSE, "none", <<>>, <<>>)
NoOutcome == Ok(<<>>, <<>>)

Init ==
  /\ objectPrototype = <<>>
  /\ op = "idle"
  /\ request = NoRequest
  /\ result = NoResult
  /\ record = <<>>
  /\ flat = NoOutcome
  /\ restored = NoOutcome

\* a request arrives and POST handles it to its response
Post ==
  /\ op = "idle"
  /\ \E req \in Requests :
       /\ request' = req
       /\ result' = POST(req, objectPrototype)
       /\ objectPrototype' = result'.proto
  /\ op' = "POST"
  /\ UNCHANGED <<record, flat, restored>>

\* unflattenObject(flattenObject(r))
RoundTrip ==
  /\ op = "idle"
  /\ \E r \in RecordInputs :
       /\ record' = r
       /\ flat' = flattenObject(Obj(r), <<>>, objectPrototype)
       /\ restored' = IF flat'.threw THEN flat'
                      ELSE unflattenObject(Obj(flat'.val), objectPrototype)
       /\ objectPrototype' = restored'.proto
  /\ op' = "roundTrip"
  /\ UNCHANGED <<request, result>>

\* unflattenObject(f)
Unflatten ==
  /\ op = "idle"
  /\ \E f \in FlatInputs :
       /\ record' = f
       /\ restored' = unflattenObject(Obj(f), objectPrototype)
       /\ objectPrototype' = restored'.proto
  /\ op' = "unflatten"
  /\ UNCHANGED <<request, result, flat>>

\* the call has returned: its objects are dropped, Object.prototype stays
Return ==
  /\ op # "idle"
  /\ op' = "idle"
  /\ request' = NoRequest
  /\ result' = NoResult
  /\ record' = <<>>
  /\ flat' = NoOutcome
  /\ restored' = NoOutcome
  /\ UNCHANGED objectPrototype

Next == Post \/ RoundTrip \/ Unflatten \/ Return

Spec == Init /\ [][Next]_vars

\* ==================================================================== claims
\* The resolution table as the documentation states it: the suffix is compared
\* without regard to case, the declared MIME counts for images only.
HasSuffixCI(name, suf) == endsWith(toLowerCase(name), suf)

DocumentedPipeline(out, req) ==
  IF out = sMd /\ HasSuffixCI(req.name, <<".", "d", "o", "c", "x">>) THEN "docx-md"
  ELSE IF out = sTxt /\ HasSuffixCI(req.name, <<".", "p", "d", "f">>) THEN "pdf-txt"
  ELSE IF out = sJson /\ HasSuffixCI(req.name, <<".", "c", "s", "v">>) THEN "csv-json"
  ELSE IF out = sCsv /\ HasSuffixCI(req.name, <<".", "j", "s", "o", "n">>) THEN "json-csv"
  ELSE IF /\ out \in {sPng, sJpg, sJpeg}
          /\ \/ startsWith(req.type, <<"i", "m", "a", "g", "e", "/">>)
             \/ \E suf \in ImageSuffixes : HasSuffixCI(req.name, suf)
    THEN "image"
  ELSE IF out = sMd /\ HasSuffixCI(req.name, <<".", "t", "x", "t">>) THEN "txt-md"
  ELSE "else"

RECURSIVE KeysDotFree(_)
KeysDotFree(props) ==
  \A i \in 1..Len(props) :
    /\ ~includes(props[i].k, <<".">>)
    /\ (props[i].v.t = "obj" => KeysDotFree(props[i].v.o))

IsBlank(text) == \A i \in 1..Len(text) : text[i] \in WhiteSpace

Handled == op = "POST" /\ request.hasFile
RequestedKind == OutputTypeOf(request)

\* C1: for every Record none of whose keys contains a '.', unflattening the
\* flattened record returns, without raising, a record equal to the original.
C1_RoundTripLaw ==
  (op = "roundTrip" /\ KeysDotFree(record))
    => (~flat.threw /\ ~restored.threw /\ restored.val = record)

\* C2: a request that carries a file and asks for an output kind that is a
\* string outside the nine whitelisted kinds is answered with the whitelist
\* error (400 'Unsupported output type'), before the payload is read and before
\* any pipeline branch is evaluated.
C2_WhitelistGate ==
  (Handled /\ RequestedKind.t = "str" /\ RequestedKind.s \notin MimeKeys)
    => /\ result.resp = ErrorResponse(400, MsgUnsupportedOutput)
       /\ ~result.bytesRead
       /\ result.branch = "none"

\* C3: a request whose output kind is whitelisted but which none of the six
\* documented pipelines accepts is answered with the 400 'conversion not
\* supported' error, carries no payload, and no codec or structural transform
\* was called for it.
C3_UnsupportedPair ==
  (Handled /\ RequestedKind.t = "str" /\ RequestedKind.s \in MimeKeys
     /\ DocumentedPipeline(RequestedKind.s, request) = "else")
    => /\ result.resp.status = 400
       /\ result.resp.error = MsgNoConversion(request.name, RequestedKind.s)
       /\ result.resp.error # MsgUnsupportedOutput
       /\ result.resp.text = <<>>
       /\ result.resp.value = Undefined
       /\ result.calls = <<>>
       /\ result.raised = <<>>

\* a state in which image.bmp-like input was requested as pdf and refused
C3_Witness ==
  /\ Handled
  /\ request.name = <<"r", ".", "b", "m", "p">>
  /\ request.type = <<"i", "m", "a", "g", "e", "/", "b", "m", "p">>
  /\ RequestedKind = Str(sPdf)
  /\ result.resp.status = 400
  /\ result.branch = "else"

\* C4: in the .pdf -> txt pipeline, when the text-extraction capability throws,
\* the response is a Failure (not a 200 Success) carrying the error message.
C4_ExtractionFailureIsFailure ==
  (Handled /\ result.branch = "pdf-txt" /\ result.raised # <<>>)
    => /\ result.resp.status # 200
       /\ includes(result.resp.error, result.raised)

\* C5: every Success of the .pdf -> txt pipeline has a payload that is neither
\* empty nor whitespace-only; and when extraction succeeds with empty or
\* whitespace-only text, the response is a Success whose payload is the
\* diagnostic report: it states the page count and the file size and lists the
\* likely causes.
C5_NeverEmptySuccess ==
  (Handled /\ result.branch = "pdf-txt")
    => /\ (result.resp.status = 200 => ~IsBlank(result.resp.text))
       /\ (request.content.kind = "pdf" /\ IsBlank(request.content.text))
            => /\ result.resp.status = 200
               /\ includes(result.resp.text,
                           <<"Total pages: ">> \o DecStr(request.content.pages) \o <<"\n">>)
               /\ includes(result.resp.text, <<"File size: ">>)
               /\ includes(result.resp.text, PdfIssueCauses)

\* scan.pdf with three pages and only blank text, requested as txt
C5_Witness ==
  /\ Handled
  /\ result.branch = "pdf-txt"
  /\ request.content.kind = "pdf"
  /\ request.content.text = <<" ", "\n", "\t">>
  /\ request.content.pages = 3
  /\ result.resp.status = 200
  /\ includes(result.resp.text, <<"Total pages: ", "3">>)

\* C6: resolution takes the pipeline the documented table gives, in which the
\* filename suffix is matched without regard to case (REPORT.CSV as json
\* resolves like report.csv) and the declared MIME counts for images only.
C6_CaseInsensitiveSuffix ==
  (Handled /\ RequestedKind.t = "str" /\ RequestedKind.s \in MimeKeys)
    => result.branch = DocumentedPipeline(RequestedKind.s, request)

\* C7: POST always answers with a response (200, 400 or 500), and whenever an
\* error was thrown while a pipeline ran, the response is the 500 Failure that
\* carries the error's message followed by the fixed remediation hints.
C7_PipelineBoundary ==
  op = "POST"
    => /\ result.resp.status \in {200, 400, 500}
       /\ result.raised # <<>> => result.resp = ServerError(result.raised)

ClaimedLabel(line) ==
  /\ Len(line) < 60
  /\ line[Len(line)] \notin {".", "!", "?"}
  /\ \A i \in 1..Len(line) : line[i] # " "

MarkupHead(name) ==
  << <<"#", " ">> \o replace(name, <<".", "t", "x", "t">>, <<>>), <<>>, <<"Converted from text file">>, <<>> >>

\* the output is the head followed by one line per source line, line(l) being
\* the output line claimed for the source line l
LinePreserving(line(_)) ==
  LET src == split(request.content.text, "\n")
      outp == split(result.resp.text, "\n")
      head == MarkupHead(request.name)
  IN /\ result.resp.status = 200
     /\ Len(outp) = Len(head) + Len(src)
     /\ SubSeq(outp, 1, Len(head)) = head
     /\ \A i \in 1..Len(src) : outp[Len(head) + i] = line(src[i])

\* C9 as stated: a blank line yields a blank line, a non-blank line shorter than
\* 60 characters that does not end in '.', '!' or '?' and contains no space
\* yields a subheading of that line, every other line is emitted verbatim; the
\* empty string, one empty line, adds nothing but its blank line to the
\* heading and preamble.
C9_VerbatimLines ==
  (Handled /\ result.branch = "txt-md")
    => LET asStated(l) == IF IsBlank(l) THEN <<>>
                          ELSE IF ClaimedLabel(l) THEN <<"#", "#", " ">> \o l
                          ELSE l
       IN LinePreserving(asStated)

\* C9 as amended: every source line is first stripped of its leading and
\* trailing whitespace; a line that is then empty yields a blank line, a
\* stripped line shorter than 60 characters that does not end in '.', '!' or
\* '?' and contains no space yields a subheading of the stripped line, every
\* other line is emitted as its stripped text.
C9_TrimmedLines ==
  (Handled /\ result.branch = "txt-md")
    => LET stripped(l) == trim(l)
           asAmended(l) == IF stripped(l) = <<>> THEN <<>>
                           ELSE IF ClaimedLabel(stripped(l)) THEN <<"#", "#", " ">> \o stripped(l)
                           ELSE stripped(l)
       IN LinePreserving(asAmended)

\* notes.txt holding a 59-character word, then a 60-character word
C9_Witness ==
  /\ Handled
  /\ result.branch = "txt-md"
  /\ request.content.text
       = LongWord(LabelMaxLen - 1) \o <<"\n">> \o LongWord(LabelMaxLen)
  /\ result.resp.status = 200
  /\ result.resp.text
       = join(MarkupHead(request.name), <<"\n">>) \o <<"\n", "#", "#", " ">>
           \o LongWord(LabelMaxLen - 1) \o <<"\n">> \o LongWord(LabelMaxLen)

\* C10: unflattenObject returns a record for every flat record without
\* raising, and when the keys 'a' and 'a.b' are both present, the later of the
\* two in iteration order decides what the node 'a' holds.
C10_TotalLastWriteWins ==
  op = "unflatten"
    => /\ ~restored.threw
       /\ (HasOwn(record, <<"a">>) /\ HasOwn(record, <<"a", ".", "b">>))
            => LET ia == OwnIndex(record, <<"a">>)
                   iab == OwnIndex(record, <<"a", ".", "b">>)
                   node == restored.val[OwnIndex(restored.val, <<"a">>)].v
               IN /\ HasOwn(restored.val, <<"a">>)
                  /\ IF ia > iab THEN node = record[ia].v
                     ELSE /\ node.t = "obj"
                          /\ HasOwn(node.o, <<"b">>)
                          /\ node.o[OwnIndex(node.o, <<"b">>)].v = record[iab].v

====
